---- MODULE Spec2Model ----
(***************************************************************************)
(* Model of gen.py, the calligraphy practice sheet generator.              *)
(*                                                                         *)
(* generate_calligraphy_pdf walks a vertical cursor (y_position) down each *)
(* A4 page, draws blocks (model sentence + ruled lines) while its fit test *)
(* holds, draws the footer and moves to the next page.  Sentences come     *)
(* from a shuffled copy of CATALAN_SENTENCES that is reshuffled whenever   *)
(* the running index reaches a multiple of its length.                     *)
(*                                                                         *)
(* All lengths in the program are Python floats (IEEE-754 doubles) in      *)
(* points: n * mm with mm = 72/25.4.  The loop condition compares such     *)
(* values, so the rounding of every product, sum and difference is         *)
(* modelled: a double is a sign and a magnitude, the magnitude an integer  *)
(* count of 2^-51 points held in three 21-bit limbs, and every operation   *)
(* rounds its exact result to 53 significant bits, ties to even.           *)
(***************************************************************************)
EXTENDS Integers, Naturals, Sequences, FiniteSets, TLC

\* ------------------------------------------------------------------------
\* Bounds of the model
\* ------------------------------------------------------------------------
PoolSize == 2
MaxPages == 2
MaxLines == 3
MaxSpacing == 80
\* the runs checked for termination take every SpacingStride-th spacing
SpacingStride == 4

\* ------------------------------------------------------------------------
\* Python float arithmetic
\* ------------------------------------------------------------------------
\* Every operation below takes its operands as values: an operand is bound
\* once, by ranging over the singleton set that holds it, before it is used.
Base == 2^21

Pow2(n) == 2^n

\* number of bits of a limb: the least n with x < 2^n
BitLen(x) == CHOOSE n \in 0..21 : x < Pow2(n) /\ (n = 0 \/ x >= Pow2(n - 1))

\* carry (or borrow) propagation over three limbs; the total is >= 0
Norm(a0, a1, a2) ==
    CHOOSE r \in { << b0 % Base,
                      (b1 + (b0 \div Base)) % Base,
                      b2 + ((b1 + (b0 \div Base)) \div Base) >> :
                   b0 \in {a0}, b1 \in {a1}, b2 \in {a2} } : TRUE

\* round a magnitude to 53 significant bits, ties to even
FRound(m0) ==
    CHOOSE r \in
      { IF m[3] < Pow2(11) THEN m
        ELSE LET p  == Pow2(BitLen(m[3]) - 11)
                 q  == m[1] \div p
                 rm == m[1] % p
                 up == IF (2 * rm > p) \/ (2 * rm = p /\ q % 2 = 1)
                       THEN 1 ELSE 0
             IN  Norm((q + up) * p, m[2], m[3]) : m \in {m0} } : TRUE

MagLt(a, b) ==
    \/ a[3] < b[3]
    \/ a[3] = b[3] /\ a[2] < b[2]
    \/ a[3] = b[3] /\ a[2] = b[2] /\ a[1] < b[1]

FZero == [s |-> 1, m |-> <<0, 0, 0>>]

FNeg(x0) ==
    CHOOSE r \in
      { IF x.m = <<0, 0, 0>> THEN x ELSE [s |-> 0 - x.s, m |-> x.m] :
        x \in {x0} } : TRUE

\* x + y
FAdd(x0, y0) ==
    CHOOSE r \in
      { IF x.s = y.s
        THEN [s |-> x.s,
              m |-> FRound(Norm(x.m[1] + y.m[1], x.m[2] + y.m[2],
                                x.m[3] + y.m[3]))]
        ELSE IF x.m = y.m THEN FZero
        ELSE IF MagLt(x.m, y.m)
        THEN [s |-> y.s,
              m |-> FRound(Norm(y.m[1] - x.m[1], y.m[2] - x.m[2],
                                y.m[3] - x.m[3]))]
        ELSE [s |-> x.s,
              m |-> FRound(Norm(x.m[1] - y.m[1], x.m[2] - y.m[2],
                                x.m[3] - y.m[3]))] :
        x \in {x0}, y \in {y0} } : TRUE

\* x - y
FSub(x, y) == FAdd(x, FNeg(y))

\* k * x for a Python int k >= 0
FMulInt(k, x0) ==
    CHOOSE r \in
      { IF k = 0 \/ x.m = <<0, 0, 0>> THEN FZero
        ELSE [s |-> x.s,
              m |-> FRound(Norm(k * x.m[1], k * x.m[2], k * x.m[3]))] :
        x \in {x0} } : TRUE

\* x < y
FLt(x0, y0) ==
    \E x \in {x0}, y \in {y0} :
        IF x.s # y.s THEN x.s < y.s
        ELSE IF x.s = 1 THEN MagLt(x.m, y.m) ELSE MagLt(y.m, x.m)

\* x > y
FGt(x, y) == FLt(y, x)

\* x <= y
FLe(x, y) == ~ FLt(y, x)

\* reportlab.lib.units.mm = 72.0 / 2.54 * 0.1 = 6383054589973932 * 2^-51
mm == [s |-> 1, m |-> <<710060, 710059, 1451>>]

\* ------------------------------------------------------------------------
\* Program constants
\* ------------------------------------------------------------------------
CATALAN_SENTENCES == 1..PoolSize

\* the outcomes of random.shuffle on a list of the pool's sentences
Shuffles ==
    { q \in [1..PoolSize -> CATALAN_SENTENCES] :
        \A a, b \in 1..PoolSize : a # b => q[a] # q[b] }

page_height == FMulInt(297, mm)
sentence_spacing == FMulInt(20, mm)
top_margin == FMulInt(20, mm)
bottom_margin == FMulInt(20, mm)
footer_y == FMulInt(10, mm)

VARIABLES
    num_pages, lines_per_sentence, line_spacing,   \* arguments
    pc,                    \* position in generate_calligraphy_pdf
    page,                  \* loop variable of the page loop
    y_position,            \* the cursor
    i,                     \* loop variable of the practice-line loop
    available_sentences,   \* the shuffled queue
    sentence_index,        \* number of sentences drawn so far
    sentence,              \* sentence of the current block
    calls,                 \* canvas calls made since the current page began
    footers,               \* footers drawn in the run, in order
    titles,                \* number of titles drawn in the run
    shown,                 \* number of showPage calls
    saved,                 \* number of save calls
    test_y,                \* cursor at the last evaluation of the loop test
    drawn,                 \* the last len(queue) sentences drawn, in order
    count,                 \* times each sentence was drawn
    shuffle_at             \* draw numbers after which the queue was reshuffled

vars == << num_pages, lines_per_sentence, line_spacing, pc, page, y_position,
           i, available_sentences, sentence_index, sentence, calls, footers,
           titles, shown, saved, test_y, drawn, count, shuffle_at >>

args == << num_pages, lines_per_sentence, line_spacing >>
pool == << available_sentences, sentence_index, sentence, drawn, count,
           shuffle_at >>

line_spacing_mm == FMulInt(line_spacing, mm)

Call(op, y) == [op |-> op, y |-> y]

\* c.drawCentredString(page_width / 2, y_position, "Pràctica de Cal·ligrafia")
draw_title(c, y) == Append(c, Call("title", y))

draw_sentence_header(c, y) == Append(c, Call("header", y))

draw_practice_line(c, y) == Append(c, Call("line", y))

draw_dotted_guide(c, y) == Append(c, Call("guide", y))

\* c.drawCentredString(page_width / 2, 10 * mm, "Pàgina ...")
draw_footer(c) == Append(c, Call("footer", footer_y))

\* variant of FitTest: the space between blocks is left out of the test
FitTest_nospacing(y) ==
    FGt(y, FAdd(bottom_margin, FMulInt(lines_per_sentence, line_spacing_mm)))

\* the condition of the while loop
FitTest(y) ==
    FGt(y, FAdd(FAdd(bottom_margin,
                     FMulInt(lines_per_sentence, line_spacing_mm)),
                sentence_spacing))

\* ------------------------------------------------------------------------
\* Initial state: the arguments, the canvas and the first shuffle
\* ------------------------------------------------------------------------
Init ==
    /\ num_pages \in 1..MaxPages
    /\ lines_per_sentence \in 1..MaxLines
    /\ line_spacing \in 1..MaxSpacing
    /\ available_sentences \in Shuffles
    /\ sentence_index = 0
    /\ sentence = 0
    /\ pc = "page"
    /\ page = 0
    /\ y_position = FZero
    /\ i = 0
    /\ calls = << >>
    /\ footers = << >>
    /\ titles = 0
    /\ shown = 0
    /\ saved = 0
    /\ test_y = FZero
    /\ drawn = << >>
    /\ count = [s \in CATALAN_SENTENCES |-> 0]
    /\ shuffle_at = << >>

\* ------------------------------------------------------------------------
\* Steps of generate_calligraphy_pdf
\* ------------------------------------------------------------------------

\* variant of BeginPage: the cursor starts at the page's top edge
BeginPage_nomargin ==
    /\ pc = "page"
    /\ page < num_pages
    /\ y_position' = page_height
    /\ calls' = << >>
    /\ pc' = IF page = 0 THEN "title" ELSE "loop"
    /\ UNCHANGED << args, page, i, pool, footers, titles, shown, saved, test_y >>

\* for page in range(num_pages): y_position = page_height - top_margin
BeginPage ==
    /\ pc = "page"
    /\ page < num_pages
    /\ y_position' = FSub(page_height, top_margin)
    /\ calls' = << >>
    /\ pc' = IF page = 0 THEN "title" ELSE "loop"
    /\ UNCHANGED << args, page, i, pool, footers, titles, shown, saved, test_y >>

\* variant of DrawTitle: a title allowance of 16 mm
DrawTitle_wide ==
    /\ pc = "title"
    /\ calls' = draw_title(calls, y_position)
    /\ titles' = titles + 1
    /\ y_position' = FSub(y_position, FMulInt(16, mm))
    /\ pc' = "loop"
    /\ UNCHANGED << args, page, i, pool, footers, shown, saved, test_y >>

\* if page == 0: title, y_position -= 15 * mm
DrawTitle ==
    /\ pc = "title"
    /\ calls' = draw_title(calls, y_position)
    /\ titles' = titles + 1
    /\ y_position' = FSub(y_position, FMulInt(15, mm))
    /\ pc' = "loop"
    /\ UNCHANGED << args, page, i, pool, footers, shown, saved, test_y >>

\* the last Len(queue) draws, the newest last
Window(d, s) ==
    LET e == Append(d, s)
    IN  IF Len(e) > PoolSize THEN Tail(e) ELSE e

\* variant of StartBlock: the wrap test is made on the index before its
\* increment, so the queue is reshuffled after the first draw of a pass
StartBlock_early ==
    /\ pc = "loop"
    /\ FitTest(y_position)
    /\ test_y' = y_position
    /\ sentence' = available_sentences[(sentence_index % Len(available_sentences)) + 1]
    /\ sentence_index' = sentence_index + 1
    /\ IF sentence_index % Len(available_sentences) = 0
       THEN /\ available_sentences' \in Shuffles
            /\ shuffle_at' = Append(shuffle_at, sentence_index')
       ELSE UNCHANGED << available_sentences, shuffle_at >>
    /\ drawn' = Window(drawn, sentence')
    /\ count' = [count EXCEPT ![sentence'] = @ + 1]
    /\ LET y1 == FSub(y_position, FMulInt(8, mm))
       IN  /\ calls' = draw_sentence_header(calls, y1)
           /\ y_position' = FSub(y1, FMulInt(10, mm))
    /\ i' = 0
    /\ pc' = "lines"
    /\ UNCHANGED << args, page, footers, titles, shown, saved >>

\* loop test true: next sentence, reshuffle at a full pass, model header
StartBlock ==
    /\ pc = "loop"
    /\ FitTest(y_position)
    /\ test_y' = y_position
    /\ sentence' = available_sentences[(sentence_index % Len(available_sentences)) + 1]
    /\ sentence_index' = sentence_index + 1
    /\ IF sentence_index' % Len(available_sentences) = 0
       THEN /\ available_sentences' \in Shuffles
            /\ shuffle_at' = Append(shuffle_at, sentence_index')
       ELSE UNCHANGED << available_sentences, shuffle_at >>
    /\ drawn' = Window(drawn, sentence')
    /\ count' = [count EXCEPT ![sentence'] = @ + 1]
    /\ LET y1 == FSub(y_position, FMulInt(8, mm))
       IN  /\ calls' = draw_sentence_header(calls, y1)
           /\ y_position' = FSub(y1, FMulInt(10, mm))
    /\ i' = 0
    /\ pc' = "lines"
    /\ UNCHANGED << args, page, footers, titles, shown, saved >>

\* variant of PracticeLine: the guide is drawn 2 mm above the ruled line
PracticeLine_raised ==
    /\ pc = "lines"
    /\ i < lines_per_sentence
    /\ calls' = IF i = 0
                THEN draw_dotted_guide(draw_practice_line(calls, y_position),
                                       FAdd(y_position, FMulInt(2, mm)))
                ELSE draw_practice_line(calls, y_position)
    /\ y_position' = FSub(y_position, line_spacing_mm)
    /\ i' = i + 1
    /\ UNCHANGED << args, pc, page, pool, footers, titles, shown, saved, test_y >>

\* for i in range(lines_per_sentence): line, guide on the first, advance
PracticeLine ==
    /\ pc = "lines"
    /\ i < lines_per_sentence
    /\ calls' = IF i = 0
                THEN draw_dotted_guide(draw_practice_line(calls, y_position),
                                       y_position)
                ELSE draw_practice_line(calls, y_position)
    /\ y_position' = FSub(y_position, line_spacing_mm)
    /\ i' = i + 1
    /\ UNCHANGED << args, pc, page, pool, footers, titles, shown, saved, test_y >>

\* y_position -= (sentence_spacing - line_spacing_mm)
EndBlock ==
    /\ pc = "lines"
    /\ i = lines_per_sentence
    /\ y_position' = FSub(y_position, FSub(sentence_spacing, line_spacing_mm))
    /\ pc' = "loop"
    /\ UNCHANGED << args, page, i, pool, calls, footers, titles, shown, saved,
                    test_y >>

\* variant of Footer: the footer shows the 0-based loop variable
Footer_zero ==
    /\ pc = "loop"
    /\ ~ FitTest(y_position)
    /\ test_y' = y_position
    /\ calls' = draw_footer(calls)
    /\ footers' = Append(footers, [index |-> page, total |-> num_pages,
                                   y |-> footer_y])
    /\ pc' = "endpage"
    /\ UNCHANGED << args, page, y_position, i, pool, titles, shown, saved >>

\* loop test false: page number at the bottom
Footer ==
    /\ pc = "loop"
    /\ ~ FitTest(y_position)
    /\ test_y' = y_position
    /\ calls' = draw_footer(calls)
    /\ footers' = Append(footers, [index |-> page + 1, total |-> num_pages,
                                   y |-> footer_y])
    /\ pc' = "endpage"
    /\ UNCHANGED << args, page, y_position, i, pool, titles, shown, saved >>

\* if page < num_pages - 1: c.showPage()
ShowPage ==
    /\ pc = "endpage"
    /\ page < num_pages - 1
    /\ calls' = Append(calls, Call("showPage", FZero))
    /\ shown' = shown + 1
    /\ page' = page + 1
    /\ pc' = "page"
    /\ UNCHANGED << args, y_position, i, pool, footers, titles, saved, test_y >>

\* variant of Save: the end of the page loop is tested one page too late
Save_late ==
    /\ pc = "endpage"
    /\ ~ (page < num_pages)
    /\ calls' = Append(calls, Call("save", FZero))
    /\ saved' = saved + 1
    /\ pc' = "done"
    /\ UNCHANGED << args, page, y_position, i, pool, footers, titles, shown,
                    test_y >>

\* last page: the page loop ends, c.save()
Save ==
    /\ pc = "endpage"
    /\ ~ (page < num_pages - 1)
    /\ calls' = Append(calls, Call("save", FZero))
    /\ saved' = saved + 1
    /\ pc' = "done"
    /\ UNCHANGED << args, page, y_position, i, pool, footers, titles, shown,
                    test_y >>

Next ==
    \/ BeginPage
    \/ DrawTitle
    \/ StartBlock
    \/ PracticeLine
    \/ EndBlock
    \/ Footer
    \/ ShowPage
    \/ Save

Spec == Init /\ [][Next]_vars

\* the arguments of the runs checked for termination
InitFair == Init /\ line_spacing % SpacingStride = 0

\* the interpreter runs the program to its end
FairSpec == InitFair /\ [][Next]_vars /\ WF_vars(Next)

\* ------------------------------------------------------------------------
\* Observations on the canvas and the sentence draws
\* ------------------------------------------------------------------------
NumOp(c, op) == Cardinality({k \in 1..Len(c) : c[k].op = op})

Blocks == NumOp(calls, "header")

IsDraw(op) == op \in {"title", "header", "line", "guide", "footer"}

AllDistinct(q) == \A a, b \in 1..Len(q) : a # b => q[a] # q[b]

\* number of draws made in the pass the last draw belongs to
PassLen ==
    IF sentence_index = 0 THEN 0
    ELSE IF sentence_index % PoolSize = 0 THEN PoolSize
    ELSE sentence_index % PoolSize

\* the draws of the pass the last draw belongs to
PassDraws == SubSeq(drawn, Len(drawn) - PassLen + 1, Len(drawn))

\* a page without title has received its footer
UntitledPageDone ==
    NumOp(calls, "footer") = 1 /\ NumOp(calls, "title") = 0

\* H and B of the page-break rule, in mm
UsableHeight == 297 - 20 - 20
BlockHeight ==
    8 + 10 + lines_per_sentence * line_spacing + (20 - line_spacing)

\* room the loop test asks for below an untitled page's first cursor, in mm
Room == (297 - 20) - (20 + lines_per_sentence * line_spacing + 20)

\* the loop test's bound, written out
Threshold ==
    FAdd(FAdd(FMulInt(20, mm),
              FMulInt(lines_per_sentence, FMulInt(line_spacing, mm))),
         FMulInt(20, mm))

\* the cursor a page starts its blocks from
FirstCursor(p) ==
    IF p = 0
    THEN FSub(FSub(FMulInt(297, mm), FMulInt(20, mm)), FMulInt(15, mm))
    ELSE FSub(FMulInt(297, mm), FMulInt(20, mm))

\* ops following a model header once n ruled lines of its block are drawn
BlockOps(n) ==
    [j \in 1..(IF n = 0 THEN 0 ELSE n + 1) |-> IF j = 2 THEN "guide" ELSE "line"]

Headers == {k \in 1..Len(calls) : calls[k].op = "header"}

\* position in calls of the page's last model header, 0 if it has none
LastHeader ==
    LET hs == Headers
    IN  IF hs = {} THEN 0 ELSE CHOOSE k \in hs : \A h \in hs : h <= k

\* every block on the page is a header followed by its lines (all of them,
\* or those drawn so far for the block in progress), and nothing but a header
\* or the footer follows a block
BlocksWellFormed ==
    LET hs   == Headers
        last == LastHeader
        full == BlockOps(lines_per_sentence)
        part == BlockOps(i)
    IN  /\ \A k \in hs :
             LET ops == IF pc = "lines" /\ k = last THEN part ELSE full
                 nxt == k + Len(ops) + 1
             IN  /\ k + Len(ops) <= Len(calls)
                 /\ \A j \in 1..Len(ops) : calls[k + j].op = ops[j]
                 /\ nxt <= Len(calls) => calls[nxt].op \in {"header", "footer"}
        /\ NumOp(calls, "line") =
             IF pc = "lines"
             THEN lines_per_sentence * (Cardinality(hs) - 1) + i
             ELSE lines_per_sentence * Cardinality(hs)
        /\ NumOp(calls, "guide") =
             IF pc = "lines" /\ i = 0 THEN Cardinality(hs) - 1
             ELSE Cardinality(hs)

\* ------------------------------------------------------------------------
\* C1
\* ------------------------------------------------------------------------

\* C1 as stated: every span of N consecutive draws, wherever it starts,
\* contains each sentence once, so the last N draws are pairwise distinct.
C1_SlidingWindow ==
    Len(drawn) = PoolSize => AllDistinct(drawn)

\* C1 amended: no sentence is drawn twice within one pass (draws k*N+1 ..
\* (k+1)*N); a span of N draws that straddles a reshuffle may repeat one.
C1_NoRepeatInPass ==
    AllDistinct(PassDraws)

\* a span of N draws that straddles a reshuffle has been drawn
C1_Witness ==
    /\ sentence_index > PoolSize
    /\ sentence_index % PoolSize # 0
    /\ Len(drawn) = PoolSize
    /\ ~ AllDistinct(drawn)

\* ------------------------------------------------------------------------
\* C2
\* ------------------------------------------------------------------------

\* C2: the first M*N draws are M permutations of the pool, each sentence
\* drawn exactly M times, and the queue has been reshuffled exactly after
\* the draws N, 2N, ... and at no other draw.
C2_FullPasses ==
    /\ shuffle_at = [k \in 1..(sentence_index \div PoolSize) |-> k * PoolSize]
    /\ (sentence_index > 0 /\ sentence_index % PoolSize = 0) =>
         /\ Len(drawn) = PoolSize
         /\ {drawn[k] : k \in 1..Len(drawn)} = CATALAN_SENTENCES
         /\ \A s \in CATALAN_SENTENCES : count[s] = sentence_index \div PoolSize

\* two full passes have been drawn
C2_Witness ==
    /\ sentence_index = 2 * PoolSize
    /\ Len(shuffle_at) = 2

\* ------------------------------------------------------------------------
\* C3
\* ------------------------------------------------------------------------

\* C3 as stated: a page without title carries floor(H / B) blocks.
C3_FloorBlocks ==
    UntitledPageDone => Blocks = UsableHeight \div BlockHeight

\* C3 amended: a page without title carries as many blocks as there are
\* k >= 0 with k*B < 277 - (40 + lines*spacing) mm, one more being possible
\* when k*B equals that room exactly (rounding decides); that is never more
\* than floor(H / B) + 1, and is floor(H / B) for 3 lines of 12 mm.
C3_BlocksByLoopTest ==
    UntitledPageDone =>
        /\ Blocks \in { Cardinality({k \in 0..8 : k * BlockHeight < Room}),
                        Cardinality({k \in 0..8 : k * BlockHeight <= Room}) }
        /\ Blocks <= (UsableHeight \div BlockHeight) + 1
        /\ (lines_per_sentence = 3 /\ line_spacing = 12) =>
              Blocks = UsableHeight \div BlockHeight

\* an untitled page is finished with more blocks than floor(H / B)
C3_Witness ==
    /\ UntitledPageDone
    /\ Blocks > UsableHeight \div BlockHeight

\* ------------------------------------------------------------------------
\* C4
\* ------------------------------------------------------------------------

\* C4: one page, 3 lines per sentence, 12 mm: the finished document is one
\* page with one title, floor(257 / 62) blocks of a model and 3 ruled lines,
\* and the footer "1 of 1".
C4_ScenarioA ==
    (num_pages = 1 /\ lines_per_sentence = 3 /\ line_spacing = 12
        /\ pc = "done") =>
        /\ shown = 0
        /\ saved = 1
        /\ titles = 1
        /\ NumOp(calls, "title") = 1
        /\ Blocks = UsableHeight \div BlockHeight
        /\ NumOp(calls, "line") = 3 * Blocks
        /\ footers = << [index |-> 1, total |-> 1, y |-> footer_y] >>

\* scenario A has run to its end
C4_Witness ==
    /\ num_pages = 1 /\ lines_per_sentence = 3 /\ line_spacing = 12
    /\ pc = "done"
    /\ Blocks = 4

\* ------------------------------------------------------------------------
\* C5
\* ------------------------------------------------------------------------

\* C5 as stated: on a page every render call's y is strictly below the y of
\* the render call before it.
C5_StrictlyDecreasing ==
    \A k \in 1..(Len(calls) - 1) :
        (IsDraw(calls[k].op) /\ IsDraw(calls[k + 1].op)) =>
            FLt(calls[k + 1].y, calls[k].y)

\* C5 amended: on a page every render call's y is strictly below the y of
\* the render call before it, except the tracing guide, which follows the
\* block's first ruled line and is drawn at exactly that line's y.
C5_DecreasingButGuide ==
    \A k \in 1..(Len(calls) - 1) :
        (IsDraw(calls[k].op) /\ IsDraw(calls[k + 1].op)) =>
            IF calls[k + 1].op = "guide"
            THEN calls[k].op = "line" /\ calls[k + 1].y = calls[k].y
            ELSE FLt(calls[k + 1].y, calls[k].y)

\* the first page is complete: title, two blocks or more, footer
C5_Witness ==
    /\ NumOp(calls, "title") = 1
    /\ NumOp(calls, "guide") >= 2
    /\ NumOp(calls, "footer") = 1

\* ------------------------------------------------------------------------
\* C6
\* ------------------------------------------------------------------------

\* C6: footers carry 1, 2, ..., pageCount in order, each with the same total
\* and at 10 mm; one title, first on page 1; showPage pageCount - 1 times,
\* each right after the footer of a page that is not the last; save once,
\* right after the last footer, and nothing after it.
C6_PageSequencing ==
    /\ footer_y = FMulInt(10, mm)
    /\ \A k \in 1..Len(footers) :
          footers[k] = [index |-> k, total |-> num_pages, y |-> footer_y]
    /\ Len(footers) = IF pc \in {"endpage", "done"} THEN page + 1 ELSE page
    /\ Len(footers) <= num_pages
    /\ NumOp(calls, "footer") <= 1
    /\ \A k \in 1..Len(calls) : calls[k].op = "footer" => calls[k].y = footer_y
    /\ titles = IF page = 0 /\ pc \in {"page", "title"} THEN 0 ELSE 1
    /\ \A k \in 1..Len(calls) : calls[k].op = "title" => k = 1 /\ Len(footers) <= 1
    /\ (page = 0 /\ pc \notin {"page", "title"}) => NumOp(calls, "title") = 1
    /\ shown = page
    /\ shown <= num_pages - 1
    /\ \A k \in 1..Len(calls) : calls[k].op = "showPage" =>
          /\ k = Len(calls)
          /\ k > 1
          /\ calls[k - 1].op = "footer"
          /\ footers[Len(footers)].index < num_pages
    /\ saved = IF pc = "done" THEN 1 ELSE 0
    /\ \A k \in 1..Len(calls) : calls[k].op = "save" =>
          /\ k = Len(calls)
          /\ k > 1
          /\ calls[k - 1].op = "footer"
          /\ footers[Len(footers)].index = num_pages
    /\ pc = "done" =>
          /\ Len(footers) = num_pages
          /\ shown = num_pages - 1
          /\ calls[Len(calls)].op = "save"

\* a document of two pages or more is finished
C6_Witness ==
    /\ pc = "done"
    /\ num_pages >= 2
    /\ Len(footers) = num_pages

\* ------------------------------------------------------------------------
\* C7
\* ------------------------------------------------------------------------

\* C7 as stated: a block is started only if lines*spacing + 20 mm + the
\* header allowance (8 mm + 10 mm) <= cursor - bottom_margin at its fit test,
\* and every started block is drawn completely.
C7_FitWithHeader ==
    /\ pc = "lines" =>
         FLe(FAdd(FAdd(FMulInt(lines_per_sentence, FMulInt(line_spacing, mm)),
                       FMulInt(20, mm)),
                  FAdd(FMulInt(8, mm), FMulInt(10, mm))),
             FSub(test_y, FMulInt(20, mm)))
    /\ BlocksWellFormed

\* C7 amended: a block is started only if, at its fit test, cursor >
\* bottom_margin + lines*spacing + 20 mm (strictly, and without the header
\* allowance); the test is made once per block, before its draw calls, and
\* every started block is drawn completely (one model header, all its ruled
\* lines) before the next test or the footer.
C7_FitBeforeDraw ==
    /\ pc = "lines" =>
         /\ FGt(test_y, Threshold)
         /\ LastHeader > 0
         /\ calls[LastHeader].y = FSub(test_y, FMulInt(8, mm))
    /\ BlocksWellFormed

\* a block that the header allowance would have ruled out is fully drawn
C7_Witness ==
    /\ pc = "lines"
    /\ i = lines_per_sentence
    /\ FGt(FAdd(Threshold, FMulInt(18, mm)), test_y)

\* ------------------------------------------------------------------------
\* C8
\* ------------------------------------------------------------------------

\* C8 as stated: the cursor is page_height - top_margin when a page begins
\* and no later assignment on the page increases it.
C8_NeverIncreases ==
    [][ /\ pc = "page" => y_position' = FSub(FMulInt(297, mm), FMulInt(20, mm))
        /\ pc # "page" => FLe(y_position', y_position) ]_vars

\* C8 amended: the cursor is page_height - top_margin when a page begins;
\* no later assignment on the page increases it, except the inter-block
\* advance of 20 mm - line_spacing, which increases it exactly when
\* line_spacing > 20 mm.
C8_IncreasesOnlyBetweenBlocks ==
    [][ /\ pc = "page" => y_position' = FSub(FMulInt(297, mm), FMulInt(20, mm))
        /\ (pc # "page" /\ ~ (pc = "lines" /\ pc' = "loop")) =>
              FLe(y_position', y_position)
        /\ (pc = "lines" /\ pc' = "loop") =>
              (FGt(y_position', y_position) <=> line_spacing > 20) ]_vars

\* a block has ended with a spacing over 20 mm, on a later page too
C8_Witness ==
    /\ pc = "loop"
    /\ page > 0
    /\ line_spacing > 20
    /\ Blocks >= 1

\* ------------------------------------------------------------------------
\* C9
\* ------------------------------------------------------------------------

\* a finished page whose first loop test failed carries no block and no
\* sentence: only the footer, after the title on page 1; no sentence has
\* been drawn by then (an earlier page starts no higher than this one)
C9_DegeneratePage ==
    (pc = "endpage" /\ ~ FGt(FirstCursor(page), Threshold)) =>
        /\ Blocks = 0
        /\ sentence_index = 0
        /\ drawn = << >>
        /\ [k \in 1..Len(calls) |-> calls[k].op] =
              IF page = 0 THEN << "title", "footer" >> ELSE << "footer" >>

\* C9: every run ends in save after pageCount pages, and a page whose fit
\* test fails at its first cursor gets no block and no sentence, leaves the
\* sentence index as it was, and is followed by the next page.
C9_Terminates ==
    /\ <>(pc = "done" /\ saved = 1 /\ Len(footers) = num_pages)
    /\ [] C9_DegeneratePage

\* a run whose last page, not the first, has no block is finished
C9_Witness ==
    /\ pc = "done"
    /\ num_pages >= 2
    /\ Blocks = 0
    /\ sentence_index = 0

\* ------------------------------------------------------------------------
\* C10
\* ------------------------------------------------------------------------

\* C10: every ruled line, tracing guide and model header is drawn strictly
\* above bottom_margin (20 mm), which is above the footer (10 mm).
C10_LinesAboveMargin ==
    \A b \in {FMulInt(20, mm)} :
        \A k \in 1..Len(calls) :
            /\ calls[k].op \in {"line", "guide", "header"} => FGt(calls[k].y, b)
            /\ calls[k].op = "footer" => FLt(calls[k].y, b)

\* a page has ended with the cursor below bottom_margin
C10_Witness ==
    /\ pc = "endpage"
    /\ Blocks >= 1
    /\ FLt(y_position, FMulInt(20, mm))

====
